---- MODULE Spec2Model ----
(***************************************************************************)
(* Mussels: catalog, version index, resolver, batch planner, toolchain     *)
(* probe and build driver of mussels/mussels.py, and its config store,     *)
(* catalog loading and cookbook commands.                                  *)
(*                                                                         *)
(* Spec runs one process from the construction of its Mussels object to    *)
(* the end of one build_recipe call; SpecConfig runs a sequence of         *)
(* processes, each constructing its object and running cookbook commands   *)
(* on the same disk.                                                       *)
(*                                                                         *)
(* Reference strings ("acme:zlib==1") are sequences of tokens, so that     *)
(* formatting (f"{cookbook}:{recipe}") is concatenation and parsing is a   *)
(* search for the ":" and "==" tokens.                                     *)
(*                                                                         *)
(* An operator named XxxWith(..., v) is the rest of Xxx once the value v   *)
(* has been computed.                                                      *)
(***************************************************************************)
EXTENDS Integers, Sequences, FiniteSets, TLC

(***************************************************************************)
(* Sequence helpers                                                        *)
(***************************************************************************)
Range(s) == {s[i] : i \in 1..Len(s)}

Contains(s, x) == \E i \in 1..Len(s) : s[i] = x

IndexOf(s, x) == CHOOSE i \in 1..Len(s) : s[i] = x /\ \A j \in 1..(i - 1) : s[j] # x

\* s without its i-th element
RemoveAt(s, i) == SubSeq(s, 1, i - 1) \o SubSeq(s, i + 1, Len(s))

MoveToFront(s, i) == <<s[i]>> \o RemoveAt(s, i)

RECURSIVE Flatten(_)
Flatten(ss) == IF ss = <<>> THEN <<>> ELSE Head(ss) \o Flatten(Tail(ss))

\* every ordering of the finite set S, as sequences (Python iterates a set
\* in an order the program does not control)
Orderings(S) ==
    {s \in [1..Cardinality(S) -> S] : \A i, j \in 1..Cardinality(S) : i # j => s[i] # s[j]}

(***************************************************************************)
(* Bounds                                                                  *)
(***************************************************************************)
\* depth at which the interpreter gives up a recursion (RecursionError)
RecursionLimit == 5

(***************************************************************************)
(* Reference strings                                                       *)
(***************************************************************************)
\* "name"
RefN(n) == <<n>>
\* "name==version"
RefNV(n, v) == <<n, "==", v>>
\* "cookbook:name"
RefCN(c, n) == <<c, ":", n>>
\* "cookbook:name==version"
RefCNV(c, n, v) == <<c, ":", n, "==", v>>

\* f"{recipe}=={version}"
FormatVersion(recipe, version) == recipe \o <<"==", version>>

\* f"{cookbook}:{recipe}"
FormatCookbook(cookbook, recipe) == <<cookbook, ":">> \o recipe

\* f"{cookbook}:{name}={version}"
FormatToolSelect(cookbook, name, version) == <<cookbook, ":", name, "=", version>>

\* ":" in dependency
HasCookbook(ref) == Contains(ref, ":")

\* the text before the ":" and the text after it
BeforeColon(ref) == IF HasCookbook(ref) THEN SubSeq(ref, 1, IndexOf(ref, ":") - 1) ELSE <<>>
AfterColon(ref) == IF HasCookbook(ref) THEN SubSeq(ref, IndexOf(ref, ":") + 1, Len(ref)) ELSE ref

IsEq(t) == t = "==" \/ t = "="

HasVersion(item) == \E i \in 1..Len(item) : IsEq(item[i])

\* the text before the version operator and the text after it
BeforeEq(item) ==
    IF HasVersion(item)
    THEN SubSeq(item, 1, (CHOOSE i \in 1..Len(item) :
                             IsEq(item[i]) /\ \A j \in 1..(i - 1) : ~IsEq(item[j])) - 1)
    ELSE item
AfterEq(item) ==
    IF HasVersion(item)
    THEN SubSeq(item, (CHOOSE i \in 1..Len(item) :
                          IsEq(item[i]) /\ \A j \in 1..(i - 1) : ~IsEq(item[j])) + 1, Len(item))
    ELSE <<>>

\* a text of one token is that token; any other text names nothing
Token(text) == IF Len(text) = 1 THEN text[1] ELSE ""

\* reference -> [cookbook, name, version, pinned]: "" where the part is
\* absent, pinned when the reference constrains the version
ParseRef(ref) ==
    [cookbook |-> Token(BeforeColon(ref)),
     name     |-> IF HasCookbook(ref) /\ Token(BeforeColon(ref)) = "" THEN ""
                  ELSE Token(BeforeEq(AfterColon(ref))),
     version  |-> Token(AfterEq(AfterColon(ref))),
     pinned   |-> HasVersion(AfterColon(ref))]

(***************************************************************************)
(* Catalog domains                                                         *)
(***************************************************************************)
Cookbooks == {"acme", "other", "local"}

\* order in which the cookbooks are read: the bookshelf first, the local
\* overlay last
CookbookOrder == <<"acme", "other", "local">>

Versions == {"1", "2", "3"}

\* natural version compare on the release strings of the model
VersionNum(v) == IF v = "1" THEN 1 ELSE IF v = "2" THEN 2 ELSE IF v = "3" THEN 3 ELSE 0

\* every recipe name of the model, in the order the catalog was read
RecipeNames == <<"a", "b", "c", "d", "x", "zlib", "openssl", "curl">>

\* a recipe definition: the declarative fields the core reads
RecipeDef(deps, tools) == [dependencies |-> deps, required_tools |-> tools]

\* a recipe definition that declares its platform list
RecipeOn(deps, tools, platform) ==
    [dependencies |-> deps, required_tools |-> tools, platform |-> platform]

\* the platform of the host
HostPlatform == "Darwin"

VARIABLES
    cookbooks,       \* cookbook name -> [trusted, url]
    recipes,         \* name -> version -> cookbook -> recipe definition
    tools,           \* tool name -> version -> cookbook -> tool definition
    installed,       \* host: the <<tool, version>> pairs whose detector succeeds
    sorted_recipes,  \* name -> list of [version, cookbooks]
    sorted_tools     \* tool name -> list of [version, cookbooks]

(***************************************************************************)
(* Version index                                                           *)
(***************************************************************************)
Highest(S) == CHOOSE v \in S : \A w \in S : VersionNum(v) >= VersionNum(w)

RECURSIVE SortDesc(_)
\* the versions of S, highest first
SortDesc(S) == IF S = {} THEN <<>> ELSE <<Highest(S)>> \o SortDesc(S \ {Highest(S)})

\* the cookbooks of C in reading order
CookbookList(C) == SelectSeq(CookbookOrder, LAMBDA c : c \in C)

IndexEntries(byVersion, vs) ==
    [i \in 1..Len(vs) |-> [version |-> vs[i], cookbooks |-> CookbookList(DOMAIN byVersion[vs[i]])]]

\* catalog -> name -> descending list of [version, cookbooks]
sort_all_recipes_by_version(items) ==
    [n \in DOMAIN items |-> IndexEntries(items[n], SortDesc(DOMAIN items[n]))]

\* the entry satisfies the parsed reference p
Fits(p, e) ==
    /\ (p.pinned => e.version = p.version)
    /\ (p.cookbook # "" => Contains(e.cookbooks, p.cookbook))

FirstFit(p, ents) ==
    CHOOSE k \in 1..Len(ents) : Fits(p, ents[k]) /\ \A j \in 1..(k - 1) : ~Fits(p, ents[j])

\* the selection moves entry i to the head, and cookbook cb to the head of it
SelectEntry(p, sorted_items, ents, i, cb) ==
    [ok    |-> TRUE,
     nvc   |-> [name |-> p.name, version |-> ents[i].version, cookbook |-> cb],
     index |-> [sorted_items EXCEPT ![p.name] =
                   <<[ents[i] EXCEPT !.cookbooks = MoveToFront(@, IndexOf(@, cb))]>>
                   \o RemoveAt(ents, i)]]

SelectAt(p, sorted_items, ents, i) ==
    SelectEntry(p, sorted_items, ents, i,
                IF p.cookbook # "" THEN p.cookbook ELSE ents[i].cookbooks[1])

SelectFrom(p, sorted_items, ents) ==
    IF \E i \in 1..Len(ents) : Fits(p, ents[i])
    THEN SelectAt(p, sorted_items, ents, FirstFit(p, ents))
    ELSE [ok |-> FALSE, nvc |-> [name |-> p.name, version |-> "", cookbook |-> ""],
          index |-> sorted_items]

SelectParsed(p, sorted_items) ==
    SelectFrom(p, sorted_items,
               IF p.name \in DOMAIN sorted_items THEN sorted_items[p.name] ELSE <<>>)

\* select(reference, index): the first entry of index[name], in the order of
\* the list, that has the requested version (if any) and lists the requested
\* cookbook (if any).  The selected entry becomes the head and the selected
\* cookbook the first of its cookbook list.  [ok, nvc, index]
get_item_version(item_name, sorted_items) == SelectParsed(ParseRef(item_name), sorted_items)

\* the order in which "for name in self.sorted_recipes" visits the names
NameOrder(sr) == SelectSeq(RecipeNames, LAMBDA n : n \in DOMAIN sr)

\* the required_tools of the recipes called n, version by version, cookbook
\* by cookbook
RequiredToolsOf(n, ents) ==
    Flatten([i \in 1..Len(ents) |->
        Flatten([j \in 1..Len(ents[i].cookbooks) |->
            recipes[n][ents[i].version][ents[i].cookbooks[j]].required_tools])])

RequiredToolsIn(sr, names) == Flatten([k \in 1..Len(names) |-> RequiredToolsOf(names[k], sr[names[k]])])

\* the required_tools of every recipe of the whole catalog, in the order the
\* loops of __get_recipe_version visit them
AllRequiredTools(sr) == RequiredToolsIn(sr, NameOrder(sr))

RECURSIVE SelectTools(_, _)
RECURSIVE SelectToolsWith(_, _, _)
\* get_item_version(tool, sorted_tools) for each tool of refs in turn
SelectTools(refs, st) ==
    IF refs = <<>> THEN [ok |-> TRUE, index |-> st]
    ELSE SelectToolsWith(refs, st, get_item_version(Head(refs), st))

SelectToolsWith(refs, st, s) ==
    IF ~s.ok THEN [ok |-> FALSE, index |-> st] ELSE SelectTools(Tail(refs), s.index)

GetRecipeVersionTools(s, st, t) ==
    IF ~t.ok
    THEN [err |-> "NoToolVersion", nvc |-> s.nvc, sr |-> s.index, st |-> st]
    ELSE [err |-> "", nvc |-> s.nvc, sr |-> s.index, st |-> t.index]

GetRecipeVersionWith(s, sr, st) ==
    IF ~s.ok
    THEN [err |-> "UnsatisfiableReference", nvc |-> s.nvc, sr |-> sr, st |-> st]
    ELSE GetRecipeVersionTools(s, st, SelectTools(AllRequiredTools(s.index), st))

\* Mussels.__get_recipe_version: select the recipe, then select every tool
\* that any recipe of the catalog requires.
\* Result: [err, nvc, sr, st] with the two indexes as the call leaves them.
get_recipe_version(recipe, sr, st) ==
    GetRecipeVersionWith(get_item_version(recipe, sr), sr, st)

(***************************************************************************)
(* Resolver                                                                *)
(***************************************************************************)
\* the dependency is passed on as the recipe wrote it
QualifyDependencyAsWritten(dependency, cookbook) == dependency

\* "if ':' not in dependency: dependency = f'{cookbook}:{dependency}'"
QualifyDependency(dependency, cookbook) ==
    IF ~HasCookbook(dependency) THEN FormatCookbook(cookbook, dependency) ELSE dependency

\* the circular-dependency test of __identify_build_recipes
IsCircular(chain, name) == Len(chain) > 0 /\ name = chain[1]

\* recipe_class.dependencies of the selected recipe
Dependencies(nvc) == recipes[nvc.name][nvc.version][nvc.cookbook].dependencies

RECURSIVE identify_build_recipes(_, _, _)
RECURSIVE IdentifyWith(_, _, _, _)
RECURSIVE IdentifyDependencies(_, _, _, _, _)

\* Mussels.__identify_build_recipes(recipe, chain).  r carries what the calls
\* share: the two indexes, the chain, the references collected so far, and
\* (selected) each selection made: the cookbook of the referring recipe ("" for
\* the root), the reference as the recipe wrote it, and the triple selected.
identify_build_recipes(recipe, r, depth) ==
    IF depth > RecursionLimit THEN [r EXCEPT !.err = "RecursionError"]
    ELSE IdentifyWith(recipe, r, depth, get_recipe_version(recipe, r.sr, r.st))

IdentifyWith(recipe, r, depth, g) ==
    IF g.err # "" THEN [r EXCEPT !.err = g.err, !.sr = g.sr, !.st = g.st]
    ELSE IF IsCircular(r.chain, g.nvc.name)
    THEN [r EXCEPT !.err = "CircularDependency", !.sr = g.sr, !.st = g.st]
    ELSE IdentifyDependencies(Dependencies(g.nvc), 1, g.nvc,
             [r EXCEPT !.sr = g.sr, !.st = g.st,
                       !.chain = Append(@, g.nvc.name),
                       !.recipes = Append(@, recipe),
                       !.selected = Append(@, [from |-> r.via.from,
                                               written |-> r.via.written,
                                               nvc |-> g.nvc])],
             depth)

\* the loop over the dependencies of the recipe selected as nvc
IdentifyDependencies(deps, i, nvc, r, depth) ==
    IF i > Len(deps) \/ r.err # "" THEN r
    ELSE IdentifyDependencies(deps, i + 1, nvc,
             identify_build_recipes(QualifyDependency(deps[i], nvc.cookbook),
                 [r EXCEPT !.via = [from |-> nvc.cookbook, written |-> deps[i]]],
                 depth + 1),
             depth)

\* the state a resolution starts from
StartResolve(written, sr, st) ==
    [err |-> "", sr |-> sr, st |-> st, chain |-> <<>>, recipes |-> <<>>,
     selected |-> <<>>, via |-> [from |-> "", written |-> written]]

\* "self.__identify_build_recipes(recipe, [])"
ResolveAll(recipe_str, written, sr, st) ==
    identify_build_recipes(recipe_str, StartResolve(written, sr, st), 1)

(***************************************************************************)
(* Batch planner                                                           *)
(***************************************************************************)
\* the names that the dependencies of the selected recipe are selected as
DependencyNames(deps) == {ParseRef(deps[i]).name : i \in 1..Len(deps)}

RECURSIVE SelectDependencies(_, _, _, _)
RECURSIVE SelectDependenciesWith(_, _, _)
\* [self.__get_recipe_version(dependency)[0] for dependency in dependencies]:
\* each dependency is selected as written; subscript is whether the value
\* that the selection returns can be subscripted with 0.  [err, sr, st]
SelectDependencies(deps, subscript, sr, st) ==
    IF deps = <<>> THEN [err |-> "", sr |-> sr, st |-> st]
    ELSE SelectDependenciesWith(deps, subscript, get_recipe_version(Head(deps), sr, st))

SelectDependenciesWith(deps, subscript, g) ==
    IF g.err # "" THEN [err |-> g.err, sr |-> g.sr, st |-> g.st]
    ELSE IF ~subscript THEN [err |-> "KeyError", sr |-> g.sr, st |-> g.st]
    ELSE SelectDependencies(Tail(deps), subscript, g.sr, g.st)

\* "name_to_deps[nvc['name']] = set([...])"
NameToDepsEntry(map, nvc, d) ==
    [err |-> d.err, sr |-> d.sr, st |-> d.st,
     map |-> IF d.err # "" THEN map ELSE (nvc.name :> DependencyNames(Dependencies(nvc))) @@ map]

RECURSIVE BuildNameToDeps(_, _, _)
RECURSIVE BuildNameToDepsWith(_, _, _, _)
\* the loop that fills name_to_deps, visiting all_recipes in the given order;
\* m carries [err, map, sr, st]
BuildNameToDeps(order, subscript, m) ==
    IF order = <<>> \/ m.err # "" THEN m
    ELSE BuildNameToDepsWith(order, subscript, m, get_recipe_version(Head(order), m.sr, m.st))

BuildNameToDepsWith(order, subscript, m, g) ==
    IF g.err # "" THEN [m EXCEPT !.err = g.err, !.sr = g.sr, !.st = g.st]
    ELSE BuildNameToDeps(Tail(order), subscript,
             NameToDepsEntry(m.map, g.nvc,
                 SelectDependencies(Dependencies(g.nvc), subscript, g.sr, g.st)))

\* one of the names with no dependency left
ReadyOne(name_to_deps) ==
    IF \E n \in DOMAIN name_to_deps : name_to_deps[n] = {}
    THEN {CHOOSE n \in DOMAIN name_to_deps : name_to_deps[n] = {}}
    ELSE {}

\* the names none of whose dependencies is a name of the map
ReadyAmongNames(name_to_deps) ==
    {n \in DOMAIN name_to_deps : name_to_deps[n] \cap DOMAIN name_to_deps = {}}

\* the names with no dependency left
Ready(name_to_deps) == {n \in DOMAIN name_to_deps : name_to_deps[n] = {}}

\* "del name_to_deps[recipe]" for the ready names, then
\* "deps.difference_update(ready)"
RemoveReady(name_to_deps, ready) ==
    [n \in DOMAIN name_to_deps \ ready |-> name_to_deps[n] \ ready]

RECURSIVE Layers(_)
RECURSIVE LayersWith(_, _)
\* the "while name_to_deps" loop: [err, batches]
Layers(name_to_deps) ==
    IF DOMAIN name_to_deps = {} THEN [err |-> "", batches |-> <<>>]
    ELSE IF Ready(name_to_deps) = {} THEN [err |-> "CircularDependency", batches |-> <<>>]
    ELSE LayersWith(Ready(name_to_deps), Layers(RemoveReady(name_to_deps, Ready(name_to_deps))))

LayersWith(ready, more) ==
    [err |-> more.err, batches |-> IF more.err # "" THEN <<>> ELSE <<ready>> \o more.batches]

EmptyMap == [n \in {} |-> {}]

GetBuildBatchesLayers(m, l) ==
    IF m.err # ""
    THEN [err |-> m.err, batches |-> <<>>, map |-> EmptyMap, sr |-> m.sr, st |-> m.st]
    ELSE [err |-> l.err, batches |-> l.batches, map |-> m.map, sr |-> m.sr, st |-> m.st]

GetBuildBatchesWith(m) == GetBuildBatchesLayers(m, Layers(m.map))

\* a planner that returns no batches and no error, whatever the resolver did
GetNoBatches(res, order, subscript) ==
    [err |-> "", batches |-> <<>>, map |-> EmptyMap, sr |-> res.sr, st |-> res.st]

\* Mussels.__get_build_batches, given the outcome res of the resolver, the
\* order in which all_recipes is visited and the outcome of the subscript:
\* [err, batches, map, sr, st]
get_build_batches(res, order, subscript) ==
    IF res.err # ""
    THEN [err |-> res.err, batches |-> <<>>, map |-> EmptyMap, sr |-> res.sr, st |-> res.st]
    ELSE GetBuildBatchesWith(
             BuildNameToDeps(order, subscript,
                 [err |-> "", sr |-> res.sr, st |-> res.st, map |-> EmptyMap]))

(***************************************************************************)
(* build_recipe: one call, from the arguments to the return                *)
(***************************************************************************)
VARIABLES
    pc,              \* "new", "idle", "collect", "probe", "build", "returned", "raised"
    recipe,          \* argument: the recipe name as the user wrote it
    version,         \* argument: "" or a version
    cookbook,        \* argument: "" or a cookbook
    dry_run,         \* argument
    exc,             \* the exception that ended the call, "" if none
    chain,           \* the chain of the resolver when it stopped
    selected,        \* the selections of the resolver (see identify_build_recipes)
    name_to_deps,    \* the map the planner built before layering it
    batches,         \* the plan: a list of sets of names
    bi,              \* index of the batch being visited
    visited,         \* names of batch bi already visited by the current loop
    probed,          \* preferred tools already probed
    preferred_tool_versions,  \* set of <<name, version, cookbook>>
    toolchain,       \* tool name -> the [version, cookbook] recorded for it
    missing_tools,   \* what the probe appended for the tools it did not find
    detects,         \* every detector invoked, in order: <<name, version>>
    failure,         \* the driver's flag
    results,         \* the results list of the caller
    builds,          \* every build step invoked, in order
    ret,             \* the value returned: "True", "False", "" before the return
    repos,           \* [recipes, tools]: what the directory or repository of each cookbook holds
    shelf_dir,       \* whether <data_dir>/cookbooks exists
    shelf,           \* the cookbooks that have a directory in <data_dir>/cookbooks
    local_dir,       \* <cwd>/mussels: "absent", "empty" (no recipe, no tool) or "full"
    remote,          \* the cookbooks whose repository can be cloned or pulled
    stored,          \* the cookbook map in config/cookbooks.json (empty: no file)
    writes,          \* the config files that this process has written
    log              \* what the config commands have done so far (see NoLog)

files   == <<repos, shelf_dir, shelf, local_dir, remote, stored, writes, log>>
catalog == <<recipes, tools, installed, files>>
indexes == <<sorted_recipes, sorted_tools>>
args    == <<recipe, version, cookbook, dry_run>>
plan    == <<chain, selected, name_to_deps, batches>>
loop    == <<bi, visited>>
probe   == <<preferred_tool_versions, toolchain, missing_tools, detects>>
driver  == <<failure, results, builds>>
vars    == <<cookbooks, catalog, indexes, pc, args, exc, plan, loop, probed, probe, driver, ret>>

\* the assignments to recipe_str at the start of build_recipe, in order
RecipeStrVersion(r, v) == IF v # "" THEN FormatVersion(r, v) ELSE r

RecipeStrCookbook(recipe_str, r, c) ==
    IF c = "" THEN FormatCookbook("local", r) ELSE FormatCookbook(c, r)

RecipeStr(r, v, c) == RecipeStrCookbook(RecipeStrVersion(r, v), r, c)

PlanResult(res, b) ==
    /\ sorted_recipes' = b.sr
    /\ sorted_tools' = b.st
    /\ chain' = res.chain
    /\ selected' = res.selected
    /\ name_to_deps' = b.map
    /\ batches' = b.batches
    /\ exc' = b.err
    /\ pc' = IF b.err # "" THEN "raised" ELSE "collect"

PlanWith(res) ==
    \E order \in Orderings(Range(res.recipes)), subscript \in BOOLEAN :
        PlanResult(res, get_build_batches(res, order, subscript))

\* build_recipe up to "batches = self.__get_build_batches(recipe_str)"
Plan(r, v, c, d) ==
    /\ pc = "idle"
    /\ recipe' = r /\ version' = v /\ cookbook' = c /\ dry_run' = d
    /\ PlanWith(ResolveAll(RecipeStr(<<r>>, v, c), <<r>>, sorted_recipes, sorted_tools))
    /\ bi' = 1 /\ visited' = {}
    /\ UNCHANGED <<cookbooks, catalog, probed, probe, driver, ret>>

\* "for bundle in batches: for recipe in bundle": the loop is at batch bi and
\* may visit any name of it not visited yet
LoopCanVisit(r) == bi <= Len(batches) /\ r \in batches[bi] \ visited

LoopOver == bi > Len(batches)

\* r is the last name the loop has to visit
LoopLast(r) == bi = Len(batches) /\ visited \cup {r} = batches[bi]

LoopVisit(r) ==
    IF visited \cup {r} = batches[bi]
    THEN bi' = bi + 1 /\ visited' = {}
    ELSE bi' = bi /\ visited' = visited \cup {r}

(***************************************************************************)
(* Toolchain probe                                                         *)
(***************************************************************************)
\* the recipe class that the driver reads for a name of the plan:
\* self.recipes[recipe][head["version"]][head["cookbooks"][0]]
HeadRecipe(sr, r) == recipes[r][sr[r][1].version][sr[r][1].cookbooks[1]]

RECURSIVE PreferredTools(_, _, _)
RECURSIVE PreferredToolsWith(_, _, _, _)
\* the selection of each required tool of one recipe: [ok, index, triples]
PreferredTools(refs, st, triples) ==
    IF refs = <<>> THEN [ok |-> TRUE, index |-> st, triples |-> triples]
    ELSE PreferredToolsWith(refs, st, triples, get_item_version(Head(refs), st))

PreferredToolsWith(refs, st, triples, s) ==
    IF ~s.ok THEN [ok |-> FALSE, index |-> st, triples |-> triples]
    ELSE PreferredTools(Tail(refs), s.index,
             triples \cup {<<s.nvc.name, s.nvc.version, s.nvc.cookbook>>})

CollectWith(r, p) ==
    /\ sorted_tools' = p.index
    /\ preferred_tool_versions' = p.triples
    /\ IF p.ok
       THEN /\ LoopVisit(r)
            /\ pc' = IF LoopLast(r) THEN "probe" ELSE "collect"
            /\ exc' = exc
       ELSE /\ UNCHANGED loop
            /\ pc' = "raised"
            /\ exc' = "UnsatisfiableReference"

\* one iteration of the loop that collects preferred_tool_versions
Collect(r) ==
    /\ pc = "collect" /\ LoopCanVisit(r)
    /\ CollectWith(r, PreferredTools(HeadRecipe(sorted_recipes, r).required_tools,
                                     sorted_tools, preferred_tool_versions))
    /\ UNCHANGED <<cookbooks, catalog, sorted_recipes, args, plan, probed,
                   toolchain, missing_tools, detects, driver, ret>>

\* a detector that reports every tool as present
DetectAlways(name, ver) == TRUE

\* tool.detect() on the host
Detect(name, ver) == <<name, ver>> \in installed

\* "toolchain[preferred_tool_name] = ..."
ToolchainPut(tc, name, ver, cb) == (name :> [version |-> ver, cookbook |-> cb]) @@ tc

\* the body of the loop over the alternatives for one alternative; t carries
\* [found, st, toolchain, detects]
ProbeAlternative(alt, name, t) ==
    IF Detect(name, alt.version)
    THEN [found     |-> TRUE,
          toolchain |-> ToolchainPut(t.toolchain, name, alt.version, alt.cookbooks[1]),
          st        |-> get_item_version(
                            FormatToolSelect(alt.cookbooks[1], name, alt.version), t.st).index,
          detects   |-> Append(t.detects, <<name, alt.version>>)]
    ELSE [t EXCEPT !.detects = Append(@, <<name, alt.version>>)]

RECURSIVE ProbeAlternatives(_, _, _)
\* "for alternative_version in alternative_versions"
ProbeAlternatives(alternative_versions, name, t) ==
    IF alternative_versions = <<>> THEN t
    ELSE ProbeAlternatives(Tail(alternative_versions), name,
                           ProbeAlternative(Head(alternative_versions), name, t))

\* the check of one preferred tool: [found, st, toolchain, detects]
ProbeTool(name, ver, cb, st, tc, det) ==
    IF Detect(name, ver)
    THEN [found |-> TRUE, st |-> st, toolchain |-> ToolchainPut(tc, name, ver, cb),
          detects |-> Append(det, <<name, ver>>)]
    ELSE IF Len(st[name]) > 1
    THEN ProbeAlternatives(Tail(st[name]), name,
             [found |-> FALSE, st |-> st, toolchain |-> tc,
              detects |-> Append(det, <<name, ver>>)])
    ELSE [found |-> FALSE, st |-> st, toolchain |-> tc,
          detects |-> Append(det, <<name, ver>>)]

\* a probe that reports no tool as missing
MissingNever(missing, found, ver) == missing

\* "if not tool_found: missing_tools.append(preferred_tool_version)"
MissingAfter(missing, found, ver) == IF found THEN missing ELSE Append(missing, ver)

ProbeWith(tool, t) ==
    /\ sorted_tools' = t.st
    /\ toolchain' = t.toolchain
    /\ detects' = t.detects
    /\ missing_tools' = MissingAfter(missing_tools, t.found, tool[2])

\* one iteration of "Check if required tools are installed"
Probe(tool) ==
    /\ pc = "probe" /\ tool \in preferred_tool_versions \ probed
    /\ ProbeWith(tool, ProbeTool(tool[1], tool[2], tool[3], sorted_tools, toolchain, detects))
    /\ probed' = probed \cup {tool}
    /\ UNCHANGED <<cookbooks, catalog, sorted_recipes, pc, args, exc, plan, loop,
                   preferred_tool_versions, driver, ret>>

\* after the probe: sys.exit(1) when a tool is missing, else the driver
ProbeDone ==
    /\ pc = "probe" /\ probed = preferred_tool_versions
    /\ IF Len(missing_tools) > 0
       THEN pc' = "raised" /\ exc' = "SystemExit"
       ELSE pc' = "build" /\ exc' = exc
    /\ bi' = 1 /\ visited' = {}
    /\ UNCHANGED <<cookbooks, catalog, indexes, args, plan, probed, probe, driver, ret>>

(***************************************************************************)
(* Build driver                                                            *)
(***************************************************************************)
\* self.cookbooks[cookbook]["trusted"]: "True", "False", or "unset" when the
\* entry has no such key (a key that is missing from self.cookbooks gets an
\* empty entry on the read, cookbooks being a defaultdict)
TrustedFlag(books, c) == IF c \in DOMAIN books THEN books[c].trusted ELSE "unset"

CookbooksAfterRead(books, c) ==
    IF c \in DOMAIN books THEN books
    ELSE (c :> [trusted |-> "unset", url |-> "unset"]) @@ books

\* the trust gate of __build_recipe: "raise" (KeyError), "refuse", "pass"
TrustGate(books, c) ==
    IF TrustedFlag(books, c) = "unset" THEN "raise"
    ELSE IF TrustedFlag(books, c) = "True" THEN "pass"
    ELSE "refuse"

\* what can happen once the gate is passed: the lookup of the builder fails
\* and is caught ("KeyError"), it fails otherwise ("TypeError"), or the
\* build step runs and returns True ("success") or False ("failure")
Outcomes == {"KeyError", "TypeError", "success", "failure"}

\* "result = {'name': recipe, 'version': version, 'success': False}"
NewResult(r, ver) == [name |-> r, version |-> ver, success |-> FALSE, elapsed |-> FALSE]

\* Mussels.__build_recipe(recipe, version, cookbook, toolchain) with the
\* outcome o of the steps behind the gate: [raised, result, built, books]
build_recipe_one(r, ver, c, books, o) ==
    IF TrustGate(books, c) = "raise"
    THEN [raised |-> "KeyError", result |-> NewResult(r, ver), built |-> FALSE,
          books |-> CookbooksAfterRead(books, c)]
    ELSE IF TrustGate(books, c) = "refuse"
    THEN [raised |-> "", result |-> NewResult(r, ver), built |-> FALSE, books |-> books]
    ELSE IF o = "TypeError"
    THEN [raised |-> "TypeError", result |-> NewResult(r, ver), built |-> FALSE,
          books |-> books]
    ELSE IF o = "KeyError"
    THEN [raised |-> "", result |-> [NewResult(r, ver) EXCEPT !.elapsed = TRUE],
          built |-> FALSE, books |-> books]
    ELSE [raised |-> "",
          result |-> [NewResult(r, ver) EXCEPT !.elapsed = TRUE, !.success = (o = "success")],
          built |-> TRUE, books |-> books]

DryRunWith(r, p) ==
    /\ sorted_tools' = p.index
    /\ IF p.ok
       THEN LoopVisit(r) /\ UNCHANGED <<pc, exc>>
       ELSE pc' = "raised" /\ exc' = "UnsatisfiableReference" /\ UNCHANGED loop
    /\ UNCHANGED <<cookbooks, driver>>

\* the dry-run branch of the loop: the tools of the recipe are selected again
DryRunStep(r) ==
    DryRunWith(r, PreferredTools(HeadRecipe(sorted_recipes, r).required_tools, sorted_tools, {}))

\* "if failure: Skipping ... due to prior failure"
SkipStep(r) ==
    /\ LoopVisit(r)
    /\ UNCHANGED <<cookbooks, sorted_tools, pc, exc, driver>>

\* a driver that builds the newest version of the recipe, not the head
BuildRecordNewest(r, head, success) ==
    [name |-> r, version |-> Highest(DOMAIN recipes[r]), cookbook |-> head.cookbooks[1],
     batch |-> bi, success |-> success]

\* the record of a build step that was invoked
BuildRecord(r, head, success) ==
    [name |-> r, version |-> head.version, cookbook |-> head.cookbooks[1],
     batch |-> bi, success |-> success]

\* a driver that does not look at the result
FailureKept(flag, result) == flag

\* "if not result['success']: failure = True"
FailureAfter(flag, result) == flag \/ ~result.success

ExecuteWith(r, b) ==
    /\ cookbooks' = b.books
    /\ builds' = IF b.built
                 THEN Append(builds, BuildRecord(r, sorted_recipes[r][1], b.result.success))
                 ELSE builds
    /\ IF b.raised # ""
       THEN /\ pc' = "raised" /\ exc' = b.raised
            /\ UNCHANGED <<loop, failure, results>>
       ELSE /\ results' = Append(results, b.result)
            /\ failure' = FailureAfter(failure, b.result)
            /\ LoopVisit(r)
            /\ UNCHANGED <<pc, exc>>
    /\ UNCHANGED sorted_tools

\* "result = self.__build_recipe(...); results.append(result)"
ExecuteStep(r, o) ==
    ExecuteWith(r, build_recipe_one(r, sorted_recipes[r][1], cookbook, cookbooks, o))

\* one iteration of the "Perform Build" loop
Build(r, o) ==
    /\ pc = "build" /\ LoopCanVisit(r)
    /\ IF dry_run THEN DryRunStep(r)
       ELSE IF failure THEN SkipStep(r)
       ELSE ExecuteStep(r, o)
    /\ UNCHANGED <<catalog, sorted_recipes, args, plan, probed, probe, ret>>

\* the positional arguments that build_recipe takes after self, and the ones
\* that recipe_build passes
BuildRecipeMaxArgs == 5
RecipeBuildArgs == 7

\* recipe_build of __main__.py: the command "recipe build". Python binds the
\* arguments of "my_mussels.build_recipe(recipe, version, cookbook, target,
\* results, dry_run, clean)" before the body runs and raises TypeError when
\* there are more than the method takes.
RecipeBuild(r, v, c, d) ==
    /\ pc = "idle"
    /\ RecipeBuildArgs > BuildRecipeMaxArgs
    /\ recipe' = r /\ version' = v /\ cookbook' = c /\ dry_run' = d
    /\ pc' = "raised" /\ exc' = "TypeError"
    /\ log' = [log EXCEPT !.command = "build"]
    /\ UNCHANGED <<cookbooks, recipes, tools, installed, repos, shelf_dir, shelf, local_dir,
                   remote, stored, writes, indexes, plan, loop, probed, probe, driver, ret>>

\* the exit status of the process: sys.exit(0) after a call that did not
\* return False, 1 after "if success == False: sys.exit(1)", after
\* sys.exit(1) in build_recipe and after an exception that nothing catches
ExitStatus == IF pc = "returned" /\ ret # "False" THEN 0 ELSE 1

\* print_results(results): reads result["time elapsed"] of every record
PrintResultsRaises(res) == \E i \in 1..Len(res) : ~res[i].elapsed

\* the end of build_recipe
Return ==
    /\ pc = "build" /\ LoopOver
    /\ IF ~dry_run /\ PrintResultsRaises(results)
       THEN pc' = "raised" /\ exc' = "KeyError" /\ ret' = ret
       ELSE pc' = "returned" /\ exc' = exc /\ ret' = IF failure THEN "False" ELSE "True"
    /\ UNCHANGED <<cookbooks, catalog, indexes, args, plan, loop, probed, probe, driver>>

(***************************************************************************)
(* Config store and catalog loading                                        *)
(***************************************************************************)
\* cookbooks: defaultdict = defaultdict(dict), recipes and tools likewise
EmptyBooks == [c \in {} |-> [trusted |-> "unset", url |-> "unset"]]
EmptyCatalog == [n \in {} |-> <<>>]

\* what the commands have done: the command line command that ran
\* build_recipe ("" if none), whether a cookbook command has run, what has
\* happened since the last one ("reload", "update"), the cookbooks trusted,
\* added and removed by them, and the course of the last update_cookbooks
NoLog == [command |-> "", commands |-> FALSE, since |-> {}, trusted |-> {}, added |-> {}, removed |-> {},
          fetch |-> [books |-> {}, fetched |-> {}, read |-> {}, failed |-> {},
                     persisted |-> FALSE]]

\* json.dump of a value of a cookbook entry: True and False become true and
\* false, a string is kept, a key that is not set is not written
JsonValue(x) ==
    IF x = "True" THEN "true" ELSE IF x = "False" THEN "false"
    ELSE IF x = "unset" THEN "absent" ELSE x

\* json.load of it
PyValue(j) ==
    IF j = "true" THEN "True" ELSE IF j = "false" THEN "False"
    ELSE IF j = "absent" THEN "unset" ELSE j

JsonDump(books) ==
    [c \in DOMAIN books |-> [trusted |-> JsonValue(books[c].trusted), url |-> JsonValue(books[c].url)]]

JsonLoad(json) ==
    [c \in DOMAIN json |-> [trusted |-> PyValue(json[c].trusted), url |-> PyValue(json[c].url)]]

\* Mussels.__load_config("cookbooks.json", self.cookbooks):
\* config.update(json.load(config_file)); no file, no update
LoadConfig(books, json) ==
    [c \in DOMAIN books \cup DOMAIN json |->
        IF c \in DOMAIN json THEN JsonLoad(json)[c] ELSE books[c]]

\* the item n==v is in the cookbook cb of the catalog items
Has(items, n, v, cb) == n \in DOMAIN items /\ v \in DOMAIN items[n] /\ cb \in DOMAIN items[n][v]

\* the item is in the catalog once the cookbook c of repo has been read into it
Offered(items, repo, c, n, v, cb) == Has(items, n, v, cb) \/ (cb = c /\ Has(repo, n, v, c))

MergedItem(items, repo, c, n, v, cb) ==
    IF cb = c /\ Has(repo, n, v, c) THEN repo[n][v][c] ELSE items[n][v][cb]

\* the loops of __read_cookbook that copy what the cookbook c holds into
\* self.recipes (self.tools)
MergeCookbook(items, repo, c) ==
    [n \in {m \in DOMAIN items \cup DOMAIN repo :
               \E v \in Versions, cb \in Cookbooks : Offered(items, repo, c, m, v, cb)} |->
        [v \in {w \in Versions : \E cb \in Cookbooks : Offered(items, repo, c, n, w, cb)} |->
            [cb \in {b \in Cookbooks : Offered(items, repo, c, n, v, b)} |->
                MergedItem(items, repo, c, n, v, cb)]]]

\* what __read_cookbook returns: the cookbook holds a recipe or a tool
Yields(repo, c) ==
    \/ \E n \in DOMAIN repo.recipes : \E v \in DOMAIN repo.recipes[n] : c \in DOMAIN repo.recipes[n][v]
    \/ \E n \in DOMAIN repo.tools : \E v \in DOMAIN repo.tools[n] : c \in DOMAIN repo.tools[n][v]

\* a reader that drops a cookbook that holds neither a recipe nor a tool
ReadCookbookSkipEmpty(mem, holds, c) ==
    IF ~Yields(holds, c) THEN mem
    ELSE [books   |-> CookbooksAfterRead(mem.books, c),
          recipes |-> MergeCookbook(mem.recipes, holds.recipes, c),
          tools   |-> MergeCookbook(mem.tools, holds.tools, c)]

\* Mussels.__read_cookbook(cookbook, path) on mem = [books, recipes, tools];
\* holds is what the directory at path holds
read_cookbook(mem, holds, c) ==
    [books   |-> CookbooksAfterRead(mem.books, c),
     recipes |-> MergeCookbook(mem.recipes, holds.recipes, c),
     tools   |-> MergeCookbook(mem.tools, holds.tools, c)]

RECURSIVE ReadCookbooks(_, _, _)
\* "for cookbook in os.listdir(bookshelf)"
ReadCookbooks(mem, holds, dirs) ==
    IF dirs = {} THEN mem
    ELSE ReadCookbooks(read_cookbook(mem, holds, CHOOSE c \in dirs : TRUE), holds,
                       dirs \ {CHOOSE c \in dirs : TRUE})

\* Mussels.__read_bookshelf, up to the store
read_bookshelf(mem) == IF shelf_dir THEN ReadCookbooks(mem, repos, shelf) ELSE mem

\* what <cwd>/mussels holds
LocalHolds == IF local_dir = "full" THEN repos ELSE [recipes |-> EmptyCatalog, tools |-> EmptyCatalog]

\* Mussels.__read_local_recipes
read_local_recipes(mem) ==
    IF local_dir = "absent" THEN mem
    ELSE IF ~Yields(LocalHolds, "local") THEN read_cookbook(mem, LocalHolds, "local")
    ELSE [read_cookbook(mem, LocalHolds, "local") EXCEPT !.books["local"] = [trusted |-> "True", url |-> ""]]

\* Mussels.__load_recipes on the loaded config
load_recipes(mem) ==
    IF mem.recipes = EmptyCatalog \/ mem.tools = EmptyCatalog
    THEN read_local_recipes(read_bookshelf(mem))
    ELSE read_local_recipes(mem)

\* the cookbook map that __read_bookshelf stores
BookshelfStores(mem) == (mem.recipes = EmptyCatalog \/ mem.tools = EmptyCatalog) /\ shelf_dir

ConstructWith(start, mem) ==
    /\ cookbooks' = mem.books
    /\ recipes' = mem.recipes
    /\ tools' = mem.tools
    /\ sorted_recipes' = sort_all_recipes_by_version(mem.recipes)
    /\ sorted_tools' = sort_all_recipes_by_version(mem.tools)
    /\ stored' = IF BookshelfStores(start) THEN JsonDump(read_bookshelf(start).books) ELSE stored
    /\ writes' = IF BookshelfStores(start) THEN writes \cup {"cookbooks.json"} ELSE writes

Loaded == [books |-> LoadConfig(cookbooks, stored), recipes |-> recipes, tools |-> tools]

\* Mussels.__init__: load the config, load the catalog, build the indexes
Construct ==
    /\ pc = "new"
    /\ ConstructWith(Loaded, load_recipes(Loaded))
    /\ pc' = "idle"
    /\ log' = [log EXCEPT !.since = IF log.commands THEN @ \cup {"reload"} ELSE @]
    /\ UNCHANGED <<installed, repos, shelf_dir, shelf, local_dir, remote, args, exc, plan,
                   loop, probed, probe, driver, ret>>

(***************************************************************************)
(* Cookbook commands                                                       *)
(***************************************************************************)
\* Mussels.__store_config("cookbooks.json", self.cookbooks) on the new map
StoreCookbooks ==
    /\ stored' = JsonDump(cookbooks')
    /\ writes' = writes \cup {"cookbooks.json"}

\* the in-memory map with the key c set to entry (a defaultdict: the entry
\* is created when it is missing)
WithEntry(books, c, entry) ==
    [b \in DOMAIN books \cup {c} |-> IF b = c THEN entry ELSE books[b]]

\* Mussels.config_trust_cookbook(cookbook)
ConfigTrust(c) ==
    /\ pc = "idle"
    /\ cookbooks' = WithEntry(cookbooks, c, [trusted |-> "True",
                   url |-> IF c \in DOMAIN cookbooks THEN cookbooks[c].url ELSE "unset"])
    /\ StoreCookbooks
    /\ log' = [log EXCEPT !.commands = TRUE, !.since = {},
                          !.trusted = IF c \in DOMAIN cookbooks THEN @ \cup {c} ELSE @,
                          !.removed = @ \ {c}]
    /\ UNCHANGED <<recipes, tools, installed, repos, shelf_dir, shelf, local_dir, remote,
                   indexes, pc, args, exc, plan, loop, probed, probe, driver, ret>>

\* Mussels.config_add_cookbook(cookbook, author, url)
ConfigAdd(c, url) ==
    /\ pc = "idle"
    /\ cookbooks' = WithEntry(cookbooks, c, [trusted |-> "True", url |-> url])
    /\ StoreCookbooks
    /\ log' = [log EXCEPT !.commands = TRUE, !.since = {},
                          !.added = @ \cup {c}, !.removed = @ \ {c}]
    /\ UNCHANGED <<recipes, tools, installed, repos, shelf_dir, shelf, local_dir, remote,
                   indexes, pc, args, exc, plan, loop, probed, probe, driver, ret>>

\* Mussels.config_remove_cookbook(cookbook): pop raises KeyError on a
\* cookbook that is not in the map
ConfigRemove(c) ==
    /\ pc = "idle"
    /\ IF c \in DOMAIN cookbooks
       THEN /\ cookbooks' = [b \in DOMAIN cookbooks \ {c} |-> cookbooks[b]]
            /\ StoreCookbooks
            /\ log' = [log EXCEPT !.commands = TRUE, !.since = {},
                                  !.removed = IF c \in log.added THEN @ \cup {c} ELSE @,
                                  !.added = @ \ {c}, !.trusted = @ \ {c}]
            /\ UNCHANGED <<pc, exc>>
       ELSE /\ pc' = "raised" /\ exc' = "KeyError"
            /\ UNCHANGED <<cookbooks, stored, writes, log>>
    /\ UNCHANGED <<recipes, tools, installed, repos, shelf_dir, shelf, local_dir, remote,
                   indexes, args, plan, loop, probed, probe, driver, ret>>

\* mussels.bookshelf.cookbooks: the cookbooks the program knows of itself
BookshelfBooks == {"acme"}

\* an update that resets the trust of the cookbooks it knows
UpdateDistrust(t) == "False"

\* "if 'trusted' not in self.cookbooks[book]: self.cookbooks[book]['trusted'] = False"
UpdateTrust(t) == IF t = "unset" THEN "False" ELSE t

\* the first loop of update_cookbooks
BookshelfEntries(books) ==
    [c \in DOMAIN books \cup BookshelfBooks |->
        IF c \in BookshelfBooks
        THEN [trusted |-> UpdateTrust(TrustedFlag(books, c)), url |-> "https"]
        ELSE books[c]]

\* what the directory of the cookbook c in <data_dir>/cookbooks holds
ShelfHolds(dirs, c) ==
    IF c \in dirs THEN repos ELSE [recipes |-> EmptyCatalog, tools |-> EmptyCatalog]

\* clone or pull has succeeded, or there was nothing to fetch: read the cookbook
FetchedAndRead(u, c, dirs) ==
    [u EXCEPT !.shelf = dirs,
              !.fetched = IF u.mem.books[c].url # "" THEN @ \cup {c} ELSE @,
              !.read = @ \cup {c},
              !.mem = read_cookbook(@, ShelfHolds(dirs, c), c)]

\* the body of "for book in self.cookbooks" for one cookbook; u carries
\* [mem, shelf, err, fetched, read, failed]
UpdateOne(u, c) ==
    IF u.err # "" THEN u
    ELSE IF u.mem.books[c].url = "unset" THEN [u EXCEPT !.err = "KeyError"]
    ELSE IF u.mem.books[c].url = "" THEN FetchedAndRead(u, c, u.shelf)
    ELSE IF c \notin remote THEN [u EXCEPT !.err = "GitCommandError", !.failed = @ \cup {c}]
    ELSE FetchedAndRead(u, c, u.shelf \cup {c})

RECURSIVE UpdateAll(_, _)
UpdateAll(order, u) ==
    IF order = <<>> THEN u ELSE UpdateAll(Tail(order), UpdateOne(u, Head(order)))

UpdateStart ==
    [mem |-> [books |-> BookshelfEntries(cookbooks), recipes |-> recipes, tools |-> tools],
     shelf |-> shelf, err |-> "", fetched |-> {}, read |-> {}, failed |-> {}]

UpdateWith(u) ==
    /\ cookbooks' = u.mem.books
    /\ recipes' = u.mem.recipes
    /\ tools' = u.mem.tools
    /\ shelf_dir' = TRUE
    /\ shelf' = u.shelf
    /\ IF u.err = ""
       THEN StoreCookbooks /\ UNCHANGED <<pc, exc>>
       ELSE pc' = "raised" /\ exc' = u.err /\ UNCHANGED <<stored, writes>>
    /\ log' = [log EXCEPT !.since = IF log.commands THEN @ \cup {"update"} ELSE @,
                          !.fetch = [books |-> DOMAIN u.mem.books, fetched |-> u.fetched,
                                     read |-> u.read, failed |-> u.failed,
                                     persisted |-> (u.err = "")]]

\* Mussels.update_cookbooks()
UpdateCookbooks ==
    /\ pc = "idle"
    /\ \E order \in Orderings(DOMAIN BookshelfEntries(cookbooks)) :
           UpdateWith(UpdateAll(order, UpdateStart))
    /\ UNCHANGED <<installed, repos, local_dir, remote, indexes, args, plan, loop, probed,
                   probe, driver, ret>>

\* the process ends, whether its command has returned or raised; the next
\* command runs in a new process
Exit ==
    /\ pc \in {"idle", "raised"}
    /\ pc' = "new" /\ exc' = ""
    /\ cookbooks' = EmptyBooks
    /\ recipes' = EmptyCatalog /\ tools' = EmptyCatalog
    /\ sorted_recipes' = EmptyCatalog /\ sorted_tools' = EmptyCatalog
    /\ writes' = {}
    /\ UNCHANGED <<installed, repos, shelf_dir, shelf, local_dir, remote, stored, log,
                   args, plan, loop, probed, probe, driver, ret>>

(***************************************************************************)
(* Catalogs the program is started on                                      *)
(***************************************************************************)
Book(t, u) == [trusted |-> t, url |-> u]

\* the dependency list that names the recipes of S, unqualified
DepRefs(q) == [i \in 1..Len(q) |-> RefN(q[i])]
DepList(S) == DepRefs(SelectSeq(RecipeNames, LAMBDA n : n \in S))

NoTools == [n \in {} |-> <<>>]

GraphNames == {"a", "b", "c"}

\* every dependency graph over a, b, c (cycles included), one version of each
\* recipe, all in the cookbook acme
GraphCatalogs ==
    {[recipes |-> [n \in GraphNames |-> ("1" :> ("acme" :> RecipeDef(DepList(g[n]), <<>>)))],
      tools   |-> NoTools,
      books   |-> {("acme" :> Book(t, "https")) : t \in {"True", "False"}},
      hosts   |-> {{}}] :
        g \in {f \in [GraphNames -> SUBSET GraphNames] : \A n \in GraphNames : n \notin f[n]}}

MakeTools == ("make" :> ("1" :> ("acme" :> TRUE) @@ "2" :> ("acme" :> TRUE)))

\* curl -> openssl -> zlib in acme; openssl and curl need make
ChainCatalog ==
    [recipes |-> ("zlib"    :> ("1" :> ("acme" :> RecipeDef(<<>>, <<>>))))
              @@ ("openssl" :> ("1" :> ("acme" :> RecipeDef(<<RefN("zlib")>>, <<RefN("make")>>))))
              @@ ("curl"    :> ("1" :> ("acme" :> RecipeDef(<<RefN("openssl")>>, <<RefN("make")>>)))),
     tools   |-> MakeTools,
     books   |-> {("acme" :> Book(t, "https")) : t \in {"True", "False", "unset"}},
     hosts   |-> {{}, {<<"make", "1">>}, {<<"make", "2">>}, {<<"make", "1">>, <<"make", "2">>}}]

\* a (acme) depends on other:b; b exists in other only
CrossCatalog ==
    [recipes |-> ("a" :> ("1" :> ("acme" :> RecipeDef(<<RefCN("other", "b")>>, <<>>))))
              @@ ("b" :> ("1" :> ("other" :> RecipeDef(<<>>, <<>>)))),
     tools   |-> NoTools,
     books   |-> {("acme" :> Book(t, "https")) @@ ("other" :> Book(u, "https")) :
                     t \in {"True", "False"}, u \in {"True", "False"}},
     hosts   |-> {{}}]

\* a in two versions, in acme and in the local overlay; b only in acme
VersionCatalog ==
    [recipes |-> ("a" :> (   "1" :> ("acme" :> RecipeDef(<<>>, <<>>) @@ "local" :> RecipeDef(<<>>, <<>>))
                          @@ "2" :> ("acme" :> RecipeDef(<<RefN("b")>>, <<>>)
                                     @@ "local" :> RecipeDef(<<>>, <<RefNV("make", "1")>>))))
              @@ ("b" :> ("1" :> ("acme" :> RecipeDef(<<>>, <<RefN("make")>>)))),
     tools   |-> MakeTools,
     books   |-> {("acme" :> Book(t, "https")) @@ ("local" :> Book("True", "")) :
                     t \in {"True", "False"}},
     hosts   |-> {{<<"make", "1">>}, {<<"make", "2">>}}]

\* a needs b==1 and c, c needs b==2; the two versions of b differ in what
\* they depend on
ConflictCatalog ==
    [recipes |-> ("a" :> ("1" :> ("acme" :> RecipeDef(<<RefNV("b", "1"), RefN("c")>>, <<>>))))
              @@ ("b" :> (   "1" :> ("acme" :> RecipeDef(<<>>, <<>>))
                          @@ "2" :> ("acme" :> RecipeDef(<<RefN("d")>>, <<>>))))
              @@ ("c" :> ("1" :> ("acme" :> RecipeDef(<<RefNV("b", "2")>>, <<>>))))
              @@ ("d" :> ("1" :> ("acme" :> RecipeDef(<<>>, <<>>)))),
     tools   |-> NoTools,
     books   |-> {("acme" :> Book("True", "https"))},
     hosts   |-> {{}}]

\* a needs b, unqualified, in acme and in the local overlay; the newest b is
\* in other, an older one in acme and in local
InheritCatalog ==
    [recipes |-> ("a" :> ("1" :> (   "acme"  :> RecipeDef(<<RefN("b")>>, <<>>)
                                  @@ "local" :> RecipeDef(<<RefN("b")>>, <<>>))))
              @@ ("b" :> (   "1" :> ("acme" :> RecipeDef(<<>>, <<>>) @@ "local" :> RecipeDef(<<>>, <<>>))
                          @@ "2" :> ("other" :> RecipeDef(<<>>, <<>>)))),
     tools   |-> NoTools,
     books   |-> {("acme" :> Book("True", "https")) @@ ("other" :> Book(u, "https"))
                  @@ ("local" :> Book("True", "")) : u \in {"True", "False"}},
     hosts   |-> {{}}]

\* b==1 is offered by acme and by other, and the two recipes differ in what
\* they depend on: acme's b==1 needs the recipes of deps, other's needs nothing
TwinCatalog(deps) ==
    [recipes |-> ("a" :> ("1" :> ("acme" :> RecipeDef(<<RefN("b"), RefCN("other", "c")>>, <<>>))))
              @@ ("b" :> (   "1" :> ("acme" :> RecipeDef(deps, <<>>) @@ "other" :> RecipeDef(<<>>, <<>>))
                          @@ "2" :> ("acme" :> RecipeDef(<<>>, <<>>))))
              @@ ("c" :> ("1" :> ("other" :> RecipeDef(<<RefNV("b", "1")>>, <<>>))))
              @@ ("d" :> ("1" :> ("acme" :> RecipeDef(<<>>, <<>>)))),
     tools   |-> NoTools,
     books   |-> {("acme" :> Book("True", "https")) @@ ("other" :> Book("True", "https"))},
     hosts   |-> {{}}]

\* zlib needs cmake, offered in three versions, and cc, offered in two; the
\* host has any of them but cc 3
ProbeCatalog ==
    [recipes |-> ("zlib" :> ("1" :> ("acme" :> RecipeDef(<<>>, <<RefN("cmake"), RefN("cc")>>)))),
     tools   |-> ("cmake" :> ("1" :> ("acme" :> TRUE) @@ "2" :> ("acme" :> TRUE) @@ "3" :> ("acme" :> TRUE)))
              @@ ("cc" :> ("1" :> ("acme" :> TRUE) @@ "3" :> ("acme" :> TRUE))),
     books   |-> {("acme" :> Book("True", "https"))},
     hosts   |-> SUBSET {<<"cmake", "1">>, <<"cmake", "2">>, <<"cmake", "3">>, <<"cc", "1">>}]

\* a (Darwin) needs b; b==2 is for Windows, b==1 for Darwin; c is for
\* Windows only
PlatformCatalog ==
    [recipes |-> ("a" :> ("1" :> ("acme" :> RecipeOn(<<RefN("b")>>, <<>>, {"Darwin"}))))
              @@ ("b" :> (   "1" :> ("acme" :> RecipeOn(<<>>, <<>>, {"Darwin"}))
                          @@ "2" :> ("acme" :> RecipeOn(<<>>, <<>>, {"Windows"}))))
              @@ ("c" :> ("1" :> ("acme" :> RecipeOn(<<>>, <<>>, {"Windows"})))),
     tools   |-> NoTools,
     books   |-> {("acme" :> Book("True", "https"))},
     hosts   |-> {{}}]

\* no recipe in any cookbook; with or without tools
NoRecipes ==
    {[recipes |-> EmptyCatalog,
      tools   |-> t,
      books   |-> {("acme" :> Book("True", "https"))},
      hosts   |-> {{}, {<<"make", "1">>}}] : t \in {NoTools, MakeTools}}

\* a needs make; x, which nothing depends on, requires the tool reference t
StrayCatalog(t) ==
    [recipes |-> ("a" :> ("1" :> ("acme" :> RecipeDef(<<>>, <<RefN("make")>>))))
              @@ ("x" :> ("1" :> ("acme" :> RecipeDef(<<>>, <<t>>)))),
     tools   |-> MakeTools,
     books   |-> {("acme" :> Book("True", "https"))},
     hosts   |-> {{<<"make", "1">>, <<"make", "2">>}}]

TwinCatalogs == {TwinCatalog(<<RefN("d")>>), TwinCatalog(<<RefN("c")>>)}

Catalogs ==
    GraphCatalogs \cup TwinCatalogs \cup NoRecipes
        \cup {ChainCatalog, CrossCatalog, VersionCatalog, ConflictCatalog, InheritCatalog,
                 ProbeCatalog, PlatformCatalog,
                 StrayCatalog(RefNV("make", "3")), StrayCatalog(RefNV("make", "1"))}

(***************************************************************************)
(* Specification                                                           *)
(***************************************************************************)
\* the entries of a cookbook map that an earlier run has stored: the ones of
\* the bookshelf whose trust has been set
Known(books) ==
    [c \in {d \in DOMAIN books \ {"local"} : books[d].trusted # "unset"} |-> books[c]]

\* the disk before the program starts: the cookbooks of the catalog k are
\* directories of the bookshelf, its local recipes are in <cwd>/mussels
InitCatalog(k) ==
    /\ repos = [recipes |-> k.recipes, tools |-> k.tools]
    /\ shelf_dir = TRUE
    /\ shelf = {c \in Cookbooks \ {"local"} : Yields([recipes |-> k.recipes, tools |-> k.tools], c)}
    /\ local_dir = IF Yields([recipes |-> k.recipes, tools |-> k.tools], "local") THEN "full" ELSE "absent"
    /\ remote = {}
    /\ stored \in {JsonDump(Known(b)) : b \in k.books}
    /\ installed \in k.hosts

\* a process that has not constructed its Mussels object yet
NewProcess ==
    /\ pc = "new"
    /\ cookbooks = EmptyBooks
    /\ recipes = EmptyCatalog /\ tools = EmptyCatalog
    /\ sorted_recipes = EmptyCatalog /\ sorted_tools = EmptyCatalog
    /\ writes = {}

NoCall ==
    /\ recipe = "" /\ version = "" /\ cookbook = "" /\ dry_run = FALSE
    /\ exc = "" /\ chain = <<>> /\ selected = <<>>
    /\ name_to_deps = EmptyMap /\ batches = <<>>
    /\ bi = 1 /\ visited = {} /\ probed = {}
    /\ preferred_tool_versions = {} /\ toolchain = <<>>
    /\ missing_tools = <<>> /\ detects = <<>>
    /\ failure = FALSE /\ results = <<>> /\ builds = <<>>
    /\ ret = ""

Init ==
    /\ \E k \in Catalogs : InitCatalog(k)
    /\ NewProcess
    /\ log = NoLog
    /\ NoCall

\* what the user may pass on this catalog
RecipeArgs == DOMAIN recipes \cup {"nope"}
VersionArgs == {""} \cup Versions
CookbookArgs == {""} \cup DOMAIN cookbooks

Next ==
    \/ Construct
    \/ \E r \in RecipeArgs, v \in VersionArgs, c \in CookbookArgs, d \in BOOLEAN :
         Plan(r, v, c, d)
    \/ \E r \in DOMAIN recipes : Collect(r)
    \/ \E t \in preferred_tool_versions : Probe(t)
    \/ ProbeDone
    \/ \E r \in DOMAIN recipes, o \in Outcomes : Build(r, o)
    \/ Return
    \/ \E r \in RecipeArgs, v \in VersionArgs, c \in CookbookArgs, d \in BOOLEAN :
         RecipeBuild(r, v, c, d)

Spec == Init /\ [][Next]_vars

\* the recipes and the tool of the cookbooks that the cookbook commands run on
ConfigRepos ==
    [recipes |-> ("zlib" :> ("1" :> ("acme" :> RecipeDef(<<>>, <<>>))))
              @@ ("openssl" :> ("1" :> ("other" :> RecipeDef(<<>>, <<>>))))
              @@ ("a" :> ("1" :> ("local" :> RecipeDef(<<>>, <<>>)))),
     tools   |-> ("make" :> ("1" :> ("acme" :> TRUE)))]

\* the disk before the first run: no cookbooks.json, any bookshelf, any
\* <cwd>/mussels, any set of repositories that can be reached; the cookbook
\* other holds its recipe or holds nothing at all
InitConfig ==
    /\ repos \in {ConfigRepos,
                  [ConfigRepos EXCEPT !.recipes = [n \in DOMAIN @ \ {"openssl"} |-> @[n]]]}
    /\ shelf_dir \in BOOLEAN
    /\ shelf \in (IF shelf_dir THEN SUBSET {"acme", "other"} ELSE {{}})
    /\ local_dir \in {"absent", "empty", "full"}
    /\ remote \in SUBSET {"acme", "other"}
    /\ stored = EmptyBooks
    /\ installed = {}
    /\ NewProcess
    /\ log = NoLog
    /\ NoCall

NextConfig ==
    \/ Construct
    \/ \E c \in {"acme", "other"} : ConfigTrust(c)
    \/ \E c \in {"acme", "other"} : ConfigAdd(c, "https")
    \/ \E c \in {"acme", "other"} : ConfigRemove(c)
    \/ UpdateCookbooks
    \/ Exit

SpecConfig == InitConfig /\ [][NextConfig]_vars

(***************************************************************************)
(* Properties                                                              *)
(***************************************************************************)
\* the names of the plan
PlanNames == UNION Range(batches)

\* the names that the recipe built for a name of the plan depends on
PinnedDependencies(n) == DependencyNames(HeadRecipe(sorted_recipes, n).dependencies)

\* the names that a recipe whose build step was invoked depends on
BuiltDependencies(b) == DependencyNames(recipes[b.name][b.version][b.cookbook].dependencies)

\* C1: with dry_run false, the build step of a recipe of the plan is invoked
\* only if the cookbook that the recipe is pinned to is trusted, also for a
\* dependency pinned to another cookbook than the one passed for the root.
C1_BuildOnlyFromTrusted ==
    \A i \in 1..Len(builds) : TrustedFlag(cookbooks, builds[i].cookbook) = "True"

\* C2: in the batches that __get_build_batches returns, every direct
\* dependency of a recipe of batch k is in a batch with a smaller index.
C2_DependenciesInEarlierBatches ==
    \A k \in 1..Len(batches) : \A n \in batches[k] :
        \A d \in PinnedDependencies(n) : \E j \in 1..(k - 1) : d \in batches[j]

\* C3: build steps are invoked in batch order: when the build step of a
\* recipe starts, the build step of each of its direct dependencies has been
\* invoked before and has succeeded, and no step of an earlier batch follows.
C3_BuildsInBatchOrder ==
    \A i \in 1..Len(builds) :
        /\ \A d \in BuiltDependencies(builds[i]) :
               \E j \in 1..(i - 1) : builds[j].name = d /\ builds[j].success
        /\ \A j \in 1..(i - 1) : builds[j].batch <= builds[i].batch

\* C4: when the root resolves, every name of the plan is pinned to exactly
\* one (version, cookbook) pair and the driver builds that pair, also when
\* two recipes refer to the name with different qualifiers.
C4_OnePinPerName ==
    batches # <<>> =>
        /\ \A i, j \in 1..Len(selected) :
               selected[i].nvc.name = selected[j].nvc.name => selected[i].nvc = selected[j].nvc
        /\ \A i \in 1..Len(builds) : \A j \in 1..Len(selected) :
               selected[j].nvc.name = builds[i].name =>
                   /\ selected[j].nvc.version = builds[i].version
                   /\ selected[j].nvc.cookbook = builds[i].cookbook

\* the names that the recipes selected for the name n depend on
SelectedDependencies(n) ==
    UNION {DependencyNames(Dependencies(selected[i].nvc)) :
              i \in {k \in 1..Len(selected) : selected[k].nvc.name = n}}

RECURSIVE SelectedClosure(_)
SelectedClosure(S) ==
    IF UNION {SelectedDependencies(n) : n \in S} \subseteq S THEN S
    ELSE SelectedClosure(S \cup UNION {SelectedDependencies(n) : n \in S})

\* the recipes selected from the root on contain a dependency cycle
SelectedCycle ==
    \E i \in 1..Len(selected) :
        selected[i].nvc.name \in SelectedClosure(SelectedDependencies(selected[i].nvc.name))

\* C5: when the transitive dependencies of the root contain a cycle, through
\* the root or not, __identify_build_recipes ends with CircularDependency; it
\* never recurses without end.
C5_CycleIsSignalled ==
    /\ exc # "RecursionError"
    /\ SelectedCycle => exc = "CircularDependency"

\* the resolver (not the planner) raised CircularDependency
ResolverFoundCycle == exc = "CircularDependency" /\ name_to_deps = EmptyMap

\* C6: the chain that the resolver reports for a cycle starts and ends with
\* the repeated name ([a, b, a] for a -> b -> a), and no tool detector and no
\* build step has been invoked when it raises.
C6_ChainNamesTheCycle ==
    ResolverFoundCycle =>
        /\ Len(chain) >= 3 /\ chain[Len(chain)] = chain[1]
        /\ detects = <<>> /\ builds = <<>>

RECURSIVE MapClosure(_, _)
\* the names that the names of S depend on in the map, transitively
MapClosure(map, S) ==
    IF UNION {map[n] : n \in S \cap DOMAIN map} \subseteq S THEN S
    ELSE MapClosure(map, S \cup UNION {map[n] : n \in S \cap DOMAIN map})

MapCycle(map) == \E n \in DOMAIN map : n \in MapClosure(map, map[n])

\* a dependency of the map is not one of its names
MapMissing(map) == \E n \in DOMAIN map : map[n] \ DOMAIN map # {}

\* the planner got a map to layer
PlannerRan == name_to_deps # EmptyMap

C8_VersionArgumentPinsRoot ==
    (pc # "idle" /\ version # "") =>
        /\ selected # <<>> => selected[1].nvc.version = version
        /\ (recipe \in DOMAIN recipes /\ version \notin DOMAIN recipes[recipe]) =>
               exc = "UnsatisfiableReference"

\* the cookbook that offers the newest version of the name in the catalog
NewestCookbook(n) == sort_all_recipes_by_version(recipes)[n][1].cookbooks[1]

C10_OneRecordPerRecipe ==
    (pc = "returned" /\ ~dry_run) =>
        /\ Len(results) = Cardinality(PlanNames)
        /\ \A n \in PlanNames : \E i \in 1..Len(results) : results[i].name = n

\* C11: once the build step of a recipe has returned failure, no build step
\* is invoked for a recipe that comes later in the plan, and the call does
\* not end otherwise than by returning False.
C11_FailureStopsBuilds ==
    \A i \in 1..Len(builds) :
        ~builds[i].success =>
            /\ i = Len(builds)
            /\ pc \in {"build", "returned"}
            /\ pc = "returned" => ret = "False"

\* a build step failed, recipes of the plan were left unbuilt, False returned
C11_Witness ==
    /\ pc = "returned" /\ ret = "False"
    /\ \E i \in 1..Len(builds) : ~builds[i].success
    /\ Len(builds) < Cardinality(PlanNames)
    /\ Len(builds) > 1
\* the build step of every recipe of the plan has been invoked and has
\* returned success
AllBuiltWithSuccess ==
    \A n \in PlanNames : \E i \in 1..Len(builds) : builds[i].name = n /\ builds[i].success

RecordedFailure == \E i \in 1..Len(results) : ~results[i].success

\* C12: with dry_run false, build_recipe returns True if and only if every
\* recipe of the plan was built with success; once a recipe is recorded as
\* failed (by its build step or by the trust gate) the call ends by
\* returning False.
C12_ReturnsSuccessOfPlan ==
    ~dry_run =>
        /\ pc = "returned" => (ret = "True" <=> AllBuiltWithSuccess)
        /\ (pc \in {"returned", "raised"} /\ RecordedFailure) => (pc = "returned" /\ ret = "False")
\* every recipe of the plan is pinned to a cookbook that is not trusted
AllPinnedUntrusted ==
    \A n \in PlanNames : TrustedFlag(cookbooks, sorted_recipes[n][1].cookbooks[1]) = "False"

\* C13: when every recipe of the plan is pinned to an untrusted cookbook,
\* the loop of build_recipe leaves one failure record for each recipe of the
\* plan and no build step has been invoked.
C13_OneRefusalPerRecipe ==
    (~dry_run /\ pc = "build" /\ LoopOver /\ PlanNames # {} /\ AllPinnedUntrusted) =>
        /\ builds = <<>>
        /\ Len(results) = Cardinality(PlanNames)
        /\ \A n \in PlanNames : \E i \in 1..Len(results) : results[i].name = n /\ ~results[i].success
\* C14: when a dry run returns, the process, from the construction of its
\* Mussels object on, has invoked no build step, has appended nothing to
\* results and has written no file of the config store.
C14_DryRunWritesNothing ==
    (dry_run /\ pc = "returned") => (builds = <<>> /\ results = <<>> /\ writes = {})
\* the versions of the tool name whose detector succeeds on the host
Detected(name) == {v \in DOMAIN tools[name] : Detect(name, v)}

\* a tool that the plan requires has no version whose detector succeeds
MissingRequiredTool == \E t \in preferred_tool_versions : Detected(t[1]) = {}

\* C15: if a tool required by a recipe of the plan has no version whose
\* detector succeeds, the call never reaches the driver: no build step is
\* invoked, and once the probe has started the call ends only by
\* sys.exit(1), after every preferred tool has been probed.
C15_MissingToolAborts ==
    MissingRequiredTool =>
        /\ pc \notin {"build", "returned"}
        /\ builds = <<>> /\ results = <<>>
        /\ (pc = "raised" /\ probed # {}) => (exc = "SystemExit" /\ probed = preferred_tool_versions)

\* of two required tools one has no detected version, the other one has been
\* probed with success, and the call has ended with sys.exit(1)
C15_Witness ==
    /\ MissingRequiredTool
    /\ pc = "raised" /\ exc = "SystemExit"
    /\ Cardinality(probed) = 2 /\ toolchain # <<>>
    /\ builds = <<>>

\* the detected versions below the preferred one
DetectedOlder(t) == {v \in Detected(t[1]) : VersionNum(v) < VersionNum(t[2])}

\* no detector of the tool name is invoked after one of them has succeeded
NoDetectAfterSuccess(name) ==
    \A i, j \in 1..Len(detects) :
        (i < j /\ detects[i][1] = name /\ Detect(name, detects[i][2])) => detects[j][1] # name

\* C16: when the preferred version of a required tool is not detected and
\* several older versions are, after the probe of the tool its toolchain
\* entry is the highest detected version, that version is the head of the
\* tool index, and no detector of the tool ran after the first success.
C16_FirstSuccessWins ==
    \A t \in probed :
        (pc = "probe" /\ ~Detect(t[1], t[2]) /\ Cardinality(DetectedOlder(t)) >= 2) =>
            /\ t[1] \in DOMAIN toolchain
            /\ toolchain[t[1]].version = Highest(DetectedOlder(t))
            /\ sorted_tools[t[1]][1].version = Highest(DetectedOlder(t))
            /\ NoDetectAfterSuccess(t[1])

\* a new process has loaded its catalog after the last cookbook command
Reloaded == pc = "idle" /\ "reload" \in log.since

\* C17: after config_trust_cookbook(X) for a known cookbook X, a process
\* that is constructed later and loads cookbooks.json has X with trusted
\* True, whether or not update_cookbooks or a reload of the bookshelf ran
\* in between.
C17_TrustRoundTrip ==
    \A X \in log.trusted :
        Reloaded => (X \in DOMAIN cookbooks /\ cookbooks[X].trusted = "True")

\* X was trusted, update_cookbooks ran and a new process reloaded the map
C17_Witness ==
    /\ Reloaded /\ "update" \in log.since
    /\ \E X \in log.trusted \cap BookshelfBooks : cookbooks[X].trusted = "True"
    /\ writes = {"cookbooks.json"}

\* C18: after config_add_cookbook(X, ...) followed by
\* config_remove_cookbook(X), the cookbook map of a process that reloads
\* what was persisted does not contain X.
C18_AddRemoveRoundTrip ==
    \A X \in log.removed : (Reloaded /\ "update" \notin log.since) => X \notin DOMAIN cookbooks

\* C19: when update_cookbooks fails to fetch a cookbook, every other
\* cookbook of the map is still read, the ones with a url are fetched, and
\* the map is persisted.
C19_FetchFailureIsContained ==
    log.fetch.failed # {} =>
        /\ log.fetch.persisted
        /\ log.fetch.books \ log.fetch.failed \subseteq log.fetch.read

\* C20: after catalog loading, the cookbook local, when it is in the
\* cookbook map, has trusted True and the url "".
C20_LocalIsTrusted ==
    (pc = "idle" /\ "local" \in DOMAIN cookbooks) =>
        (cookbooks["local"].trusted = "True" /\ cookbooks["local"].url = "")
\* the recipe definition targets the host: it declares no platform list, an
\* empty one, or one that contains the host platform
TargetsHost(def) ==
    "platform" \notin DOMAIN def \/ def.platform = {} \/ HostPlatform \in def.platform

\* no recipe called n, in any version and cookbook, targets the host
NoHostVariant(n) ==
    \A v \in DOMAIN recipes[n] : \A c \in DOMAIN recipes[n][v] : ~TargetsHost(recipes[n][v][c])

\* the cookbook argument names a cookbook that offers the recipe argument
RootOffered ==
    recipe \in DOMAIN recipes /\ \E v \in DOMAIN recipes[recipe] : cookbook \in DOMAIN recipes[recipe][v]

\* C21: every recipe the resolver pins targets the host, and build_recipe
\* for a name that its cookbook offers but none of whose versions targets
\* the host ends with MissingPlatformVariant.
C21_HostPlatformOnly ==
    /\ \A i \in 1..Len(selected) :
           TargetsHost(recipes[selected[i].nvc.name][selected[i].nvc.version][selected[i].nvc.cookbook])
    /\ (pc \notin {"new", "idle"} /\ RootOffered /\ version = "" /\ NoHostVariant(recipe)) =>
           (pc = "raised" /\ exc = "MissingPlatformVariant")
\* the body of build_recipe has been entered
Called == pc \notin {"new", "idle"} /\ log.command = ""

\* C22: with no recipe in any cookbook, a build_recipe call, whatever its
\* arguments, ends with UnsatisfiableReference and has invoked no tool
\* detector and no build step.
C22_EmptyCatalogFails ==
    (recipes = EmptyCatalog /\ Called) =>
        /\ pc = "raised" /\ exc = "UnsatisfiableReference"
        /\ detects = <<>> /\ builds = <<>> /\ results = <<>>

\* build_recipe has been called on an empty catalog whose cookbook has tools
C22_Witness ==
    /\ recipes = EmptyCatalog /\ tools # EmptyCatalog /\ installed # {}
    /\ Called /\ pc = "raised" /\ exc = "UnsatisfiableReference"
    /\ recipe = "nope" /\ cookbook = "acme"
\* the detector of every tool of the catalog succeeds on the host
AllToolsDetected == \A t \in DOMAIN tools : \A v \in DOMAIN tools[t] : Detect(t, v)

\* the resolver and the planner succeed on the arguments of the call,
\* whatever the order in which the planner visits the resolved recipes
PlanSucceeds(res) ==
    /\ res.err = ""
    /\ \A order \in Orderings(Range(res.recipes)) :
           get_build_batches(res, order, TRUE).err = ""

\* a dry run on these arguments has nothing to fail on
DryRunCompletes ==
    /\ dry_run /\ AllToolsDetected
    /\ \A n \in DOMAIN recipes : \A v \in DOMAIN recipes[n] : \A c \in DOMAIN recipes[n][v] :
           recipes[n][v][c].dependencies = <<>>
    /\ PlanSucceeds(ResolveAll(RecipeStr(<<recipe>>, version, cookbook), <<recipe>>,
                               sorted_recipes, sorted_tools))

\* C23: the build command exits with status 0 when a dry run completes (or
\* the build fully succeeds), and with status 0 only then.
C23_ExitStatus ==
    (log.command = "build" /\ pc \in {"returned", "raised"}) =>
        /\ ExitStatus = 0 => (exc = "" /\ ret = "True")
        /\ DryRunCompletes => ExitStatus = 0
\* the names of the batches before batch k
Earlier(k) == UNION {batches[i] : i \in 1..(k - 1)}

\* C24: batch k holds every name of the planner's map that is in no earlier
\* batch and whose direct dependencies are all in earlier batches.
C24_EarliestLayering ==
    \A k \in 1..Len(batches) :
        batches[k] = {n \in DOMAIN name_to_deps \ Earlier(k) : name_to_deps[n] \subseteq Earlier(k)}

\* a plan of several batches, one of them with several names
C24_Witness ==
    /\ Len(batches) >= 2
    /\ \E k \in 1..Len(batches) : Cardinality(batches[k]) >= 2
    /\ \E n \in DOMAIN name_to_deps : Cardinality(name_to_deps[n]) >= 2
\* what the resolver does on the arguments of the call and the indexes as
\* the construction left them
Resolved ==
    ResolveAll(RecipeStr(<<recipe>>, version, cookbook), <<recipe>>,
               sort_all_recipes_by_version(recipes), sort_all_recipes_by_version(tools))

ResolvedNames == {selected[i].nvc.name : i \in 1..Len(selected)}

\* C25: when the resolver succeeds and the recipes it selected have no
\* dependency cycle, __get_build_batches returns batches that partition the
\* resolved names: none is empty, no two share a name, and their names are
\* the resolved names.
C25_BatchesPartitionResolved ==
    (Called /\ Resolved.err = "" /\ ~SelectedCycle) =>
        /\ batches # <<>>
        /\ PlanNames = ResolvedNames
        /\ \A k \in 1..Len(batches) : batches[k] # {}
        /\ \A j, k \in 1..Len(batches) : j # k => batches[j] \cap batches[k] = {}
\* every reference to the name n: bare, with a version, with a cookbook, with both
RefsTo(n) ==
    {RefN(n)} \cup {RefNV(n, v) : v \in Versions} \cup {RefCN(c, n) : c \in Cookbooks}
        \cup {RefCNV(c, n, v) : c \in Cookbooks, v \in Versions}

\* the select s of a reference to n left its pair at the head of the index,
\* and a select of the bare name on that index returns the same pair and
\* leaves the index as it is
StickyWith(n, s) ==
    s.ok =>
        /\ s.index[n][1].version = s.nvc.version
        /\ s.index[n][1].cookbooks[1] = s.nvc.cookbook
        /\ get_item_version(RefN(n), s.index).ok
        /\ get_item_version(RefN(n), s.index).nvc = s.nvc
        /\ get_item_version(RefN(n), s.index).index = s.index

Sticky(index) ==
    \A n \in DOMAIN index : \A ref \in RefsTo(n) : StickyWith(n, get_item_version(ref, index))

RECURSIVE PinnedClosure(_)
\* the names reachable from the names of S through the dependencies of the
\* recipes at the head of the recipe index
PinnedClosure(S) ==
    IF UNION {PinnedDependencies(n) : n \in S \cap DOMAIN sorted_recipes} \subseteq S THEN S
    ELSE PinnedClosure(S \cup UNION {PinnedDependencies(n) : n \in S \cap DOMAIN sorted_recipes})

\* C27: the names of a plan are exactly the names reachable from the root
\* through the dependencies of the pinned recipes.
C27_PlanIsPinnedClosure ==
    (Called /\ batches # <<>>) => PlanNames = PinnedClosure({recipe})
\* every definition filed under the name n, in any version and cookbook
DefinitionsOf(n) ==
    IF n \notin DOMAIN recipes THEN {}
    ELSE {recipes[n][v][c] : <<v, c>> \in {p \in Versions \X Cookbooks :
                                 p[1] \in DOMAIN recipes[n] /\ p[2] \in DOMAIN recipes[n][p[1]]}}

RECURSIVE AnyClosure(_)
\* the names reachable from S through the dependencies of any definition of
\* a name: a superset of every transitive closure that a pinning can give
AnyClosure(S) ==
    IF UNION {DependencyNames(d.dependencies) : d \in UNION {DefinitionsOf(n) : n \in S}} \subseteq S
    THEN S
    ELSE AnyClosure(S \cup UNION {DependencyNames(d.dependencies) :
                                    d \in UNION {DefinitionsOf(n) : n \in S}})

\* some recipe that the root can reach requires a tool that no version fits
ClosureLacksTool ==
    \E d \in UNION {DefinitionsOf(n) : n \in AnyClosure({recipe})} :
        \E i \in 1..Len(d.required_tools) : ~get_item_version(d.required_tools[i], sorted_tools).ok

\* the recipes of the plan require the tool called t by its bare name only
PlanRequiresBare(t) ==
    \A n \in PlanNames : \A i \in 1..Len(HeadRecipe(sorted_recipes, n).required_tools) :
        ParseRef(HeadRecipe(sorted_recipes, n).required_tools[i]).name = t
            => HeadRecipe(sorted_recipes, n).required_tools[i] = RefN(t)

\* C28: a resolution fails for a missing tool version only when a recipe
\* reachable from the root requires that tool, and a tool that the plan
\* requires by its bare name is pinned to the newest version: recipes
\* outside the closure of the root have no effect on either.
C28_ResolutionReadsClosureOnly ==
    /\ (Called /\ exc = "NoToolVersion") => ClosureLacksTool
    /\ (Called /\ pc \in {"probe", "build", "returned"}) =>
           \A t \in preferred_tool_versions :
               PlanRequiresBare(t[1]) => t[2] = Highest(DOMAIN tools[t[1]])
\* the tool names that the recipes of the plan require
PlanToolNames ==
    {ParseRef(HeadRecipe(sorted_recipes, n).required_tools[i]).name :
        <<n, i>> \in {p \in PlanNames \X (1..2) :
                         p[2] <= Len(HeadRecipe(sorted_recipes, p[1]).required_tools)}}

\* the toolchain pass ran to its end and reported no missing tool
ToolchainComplete == Called /\ pc \in {"build", "returned"}

\* C29: when the toolchain pass completes without aborting, the toolchain
\* has an entry for exactly the tool names that the recipes of the plan
\* require, and the version of each entry is installed on the host.
C29_ToolchainCoversPlan ==
    ToolchainComplete =>
        /\ DOMAIN toolchain = PlanToolNames
        /\ \A n \in DOMAIN toolchain : <<n, toolchain[n].version>> \in installed

\* the pass completed with two tools, one of them in another version than
\* the preferred one
C29_Witness ==
    /\ ToolchainComplete
    /\ \E n, m \in DOMAIN toolchain :
           /\ n # m
           /\ <<n, toolchain[n].version, toolchain[n].cookbook>> \notin preferred_tool_versions
\* the preferred tools that an element of missing_tools can stand for
MissingCandidates(e) == {t[1] : t \in {u \in preferred_tool_versions : u[2] = e}}

\* C30: each element accumulated in missing_tools identifies one missing
\* tool, its name together with its preferred version.
C30_MissingElementNamesTool ==
    \A i \in 1..Len(missing_tools) : Cardinality(MissingCandidates(missing_tools[i])) = 1
\* the value x is the version string at the head of the index of n, and not
\* the head entry {version, cookbooks} itself
IsPinnedVersion(x, n) == x # sorted_recipes[n][1] /\ x = sorted_recipes[n][1].version

\* C31: every record appended to results has its elapsed time, also the
\* record of a build refused by the trust gate, and its version field is
\* the pinned version string of the recipe.
C31_ResultRecordsComplete ==
    \A i \in 1..Len(results) :
        /\ results[i].elapsed
        /\ IsPinnedVersion(results[i].version, results[i].name)
\* a step of config_trust_cookbook for a cookbook that is not in the map
TrustUnknown == \E c \in {"acme", "other"} : c \notin DOMAIN cookbooks /\ ConfigTrust(c)

\* C32: config_trust_cookbook for a cookbook name that is not in the
\* cookbook map leaves the map and the persisted cookbooks.json as they are.
C32_TrustUnknownChangesNothing ==
    [][TrustUnknown => (cookbooks' = cookbooks /\ stored' = stored)]_vars
\* every cookbook of the map but local has a trusted flag
TrustDefined ==
    \A c \in DOMAIN cookbooks \ {"local"} : cookbooks[c].trusted \in {"True", "False"}

\* a step of config_trust_cookbook or config_add_cookbook for the cookbook c
TrustStep(c) == ConfigTrust(c) \/ ConfigAdd(c, "https")

\* a flag is True after a step only if it was True before the step, in the
\* map or in the cookbooks.json that the step loads, or the step is a trust
\* or an add of the cookbook; and the step changes a defined flag only if it
\* is one of these two commands
TrustKept ==
    \A c \in DOMAIN cookbooks' \ {"local"} :
        /\ cookbooks'[c].trusted = "True" =>
               \/ c \in DOMAIN cookbooks /\ cookbooks[c].trusted = "True"
               \/ pc = "new" /\ c \in DOMAIN stored /\ stored[c].trusted = JsonValue("True")
               \/ TrustStep(c)
        /\ (c \in DOMAIN cookbooks /\ cookbooks[c].trusted \in {"True", "False"}) =>
               (cookbooks'[c].trusted = cookbooks[c].trusted \/ TrustStep(c))

\* C33: every cookbook of the map other than local has a defined trusted
\* flag, which is False until config_trust_cookbook or config_add_cookbook
\* is called for it, and neither update_cookbooks nor a reload of the
\* bookshelf changes a flag.
C33_TrustFlagDefined == []TrustDefined /\ [][TrustKept]_vars
\* the catalog items does not list the cookbook c for any item
NothingFrom(items, c) ==
    \A n \in DOMAIN items : \A v \in DOMAIN items[n] : c \notin DOMAIN items[n][v]

\* every recipe and tool that the cookbook c holds on disk is in the catalog
EverythingFrom(c) ==
    /\ \A n \in DOMAIN repos.recipes : \A v \in DOMAIN repos.recipes[n] :
           c \in DOMAIN repos.recipes[n][v] => Has(recipes, n, v, c)
    /\ \A n \in DOMAIN repos.tools : \A v \in DOMAIN repos.tools[n] :
           c \in DOMAIN repos.tools[n][v] => Has(tools, n, v, c)

\* a directory of the bookshelf that holds neither a recipe nor a tool
EmptyOnShelf == {c \in shelf : ~Yields(repos, c)}

\* the empty cookbooks are in the map with nothing filed under them, every
\* cookbook of the bookshelf has been read and persisted
EmptyKept ==
    /\ pc = "idle"
    /\ \A c \in EmptyOnShelf :
           c \in DOMAIN cookbooks /\ NothingFrom(recipes, c) /\ NothingFrom(tools, c)
    /\ \A c \in shelf : c \in DOMAIN cookbooks /\ c \in DOMAIN stored /\ EverythingFrom(c)
    /\ "cookbooks.json" \in writes

\* C34: a cookbook of the bookshelf that yields no recipe and no tool is
\* kept in the cookbook map with nothing filed under it, the construction
\* does not fail, the other cookbooks of the bookshelf are read and the map
\* is persisted with every cookbook of the bookshelf.
C34_EmptyCookbookKept ==
    [][(pc = "new" /\ shelf_dir /\ EmptyOnShelf # {}) => EmptyKept']_vars

\* the bookshelf holds the empty cookbook other next to acme, whose recipe
\* and tool were read after it or before it
C34_Witness ==
    /\ EmptyKept /\ ~log.commands /\ log.fetch.books = {}
    /\ shelf = {"acme", "other"} /\ EmptyOnShelf = {"other"}
    /\ Has(recipes, "zlib", "1", "acme") /\ "other" \in DOMAIN stored
====
